---- MODULE Spec2Model ----
(***************************************************************************)
(* Model of the Aviant push bridge (src/src/index.js, third and current    *)
(* revision of the file, lines 916-2422): the MQTT message handler, the    *)
(* review tracker (processReviewMessage), the filter (applyReviewFilters), *)
(* the legacy event path with its cooldown map (processEventMessage) and   *)
(* the runtime filter configuration (PUT /config/notifications), the       *)
(* per-device deliveries (sendReviewNotification, sendPushNotifications)    *)
(* and the device registry behind authMiddleware.                           *)
(*                                                                         *)
(* A JavaScript `undefined` is written "none".                             *)
(***************************************************************************)
EXTENDS Integers, Sequences, FiniteSets, TLC

VARIABLES
  sentNotifications,      \* Map reviewId -> {severity, thumbPath, notificationSent}
  notificationCooldowns,  \* Map cooldownKey -> Date.now() of the last event let through
  bridgeConfig,           \* bridgeConfig.notifications
  pushTokens,             \* Set of registered push tokens
  topic,                  \* config.mqtt.topic, the one subscribed topic
  now,                    \* Date.now(), milliseconds
  handlers,               \* message handlers suspended at `await sendReviewNotification`
  stats,                  \* stats.notificationsSent and stats.notificationsFailed
  devices,                \* Map token -> device metadata
  inflight,               \* the request to a push service that a handler awaits
  deviceKeys,             \* the keys of `devices` in the order a Map iterates: insertion order
  authToken,              \* process.env.AUTH_TOKEN
  running,                \* the process is alive and the message stream is read
  delivery,               \* history: the deliveries made for the message handled last
  filterCall,             \* history: the last call of applyReviewFilters on its own
  response,               \* history: the HTTP request answered last
  reviewCalls,            \* history: calls of sendReviewNotification, in order
  eventCalls,             \* history: calls of sendPushNotifications, in order
  last,                   \* history: the message handled last and what its handler saw
  insideSeen,             \* history: reviewIds that had a message pass the camera rule
  arrived                 \* history: the review messages in arrival order (SpecAsync)

(* The device registry and the process, which no message handler writes *)
registry == <<pushTokens, devices, deviceKeys, authToken, running, response>>

vars == <<sentNotifications, notificationCooldowns, bridgeConfig, pushTokens, topic,
          now, handlers, stats, devices, deviceKeys, authToken, running, delivery,
          inflight, filterCall, response, reviewCalls, eventCalls, last, insideSeen, arrived>>

-----------------------------------------------------------------------------
(* Bounds of the model *)

MaxCalls == 2
MaxArrived == 3
MaxTime == 3000
MaxRequests == 2

(* Input alphabets *)

None == "none"
ReviewIds == {"r1"}
MessageTypes == {"new", "update", "end"}
Severities == {"alert", "detection", None}
ThumbPaths == {"t1", "t2"}
Cameras == {"front", "back", None}
ObjectLists == {<<>>, <<"person">>}
EventCameras == {"front", "a_b", "a"}
EventLabels == {"person", "c", "b_c"}
TickSteps == {500, 1000}
Topics == {"frigate/reviews", "frigate/events"}
ExpoToken == "ExponentPushToken[x]"
FcmToken == "fcm0123456789abcdefghijklmnopqrstuvwxyz0123456789abcdefghij"
(* A second FCM token with the first 30 characters of FcmToken *)
FcmTokenB == "fcm0123456789abcdefghijklmnopqrSTUVWXYZ9876543210ABCDEFGHIJ"
Tokens == {ExpoToken, FcmToken}
DeviceOutcomes == {"ok", "failed"}

SeverityFilters == {"alert", "detection", "all"}
CameraFilters == {<<>>, <<"front">>}
LabelFilters == {<<>>, <<"person">>}
Cooldowns == {0, 1, 2, 30}

MsPerSecond == 1000
DefaultCooldown == 30

Range(s) == {s[i] : i \in DOMAIN s}

(* A broker payload. Review messages carry severity, thumb_path and         *)
(* data.objects, under `after` or at the top level (`where`); legacy event  *)
(* messages carry a label under `after`.                                    *)
Shapes == {"after", "top"}

ReviewPayloads ==
  [type : MessageTypes, where : Shapes, id : ReviewIds, severity : Severities,
   thumbPath : ThumbPaths, camera : Cameras, objects : ObjectLists, label : {None}]

EventPayloads ==
  [type : MessageTypes, where : {"after"}, id : {"e1"}, severity : {None},
   thumbPath : {None}, camera : EventCameras, objects : {<<>>}, label : EventLabels]

-----------------------------------------------------------------------------
(* Helpers for the Map objects *)

MapHas(m, k) == k \in DOMAIN m

MapSet(m, k, v) == [x \in (DOMAIN m) \cup {k} |-> IF x = k THEN v ELSE m[x]]

MapDelete(m, k) == [x \in (DOMAIN m) \ {k} |-> m[x]]

EmptyMap == [x \in {} |-> None]

-----------------------------------------------------------------------------
(* applyReviewFilters(severity, camera, objects): index.js 1901-1925 *)

(* Mutant: the camera allowlist is not consulted *)
applyReviewFilters_NoCameraRule(cfg, severity, camera, objects) ==
  IF cfg.severityFilter # "all" /\ severity # cfg.severityFilter THEN FALSE
  ELSE IF Len(cfg.filterLabels) > 0
          /\ ~(\E i \in DOMAIN objects : objects[i] \in Range(cfg.filterLabels)) THEN FALSE
  ELSE TRUE

(* Mutant: every object has to be in the label allowlist, not just one *)
applyReviewFilters_EveryObject(cfg, severity, camera, objects) ==
  IF cfg.severityFilter # "all" /\ severity # cfg.severityFilter THEN FALSE
  ELSE IF Len(cfg.filterCameras) > 0 /\ camera \notin Range(cfg.filterCameras) THEN FALSE
  ELSE IF Len(cfg.filterLabels) > 0
          /\ ~(\A i \in DOMAIN objects : objects[i] \in Range(cfg.filterLabels)) THEN FALSE
  ELSE TRUE

applyReviewFilters(cfg, severity, camera, objects) ==
  IF cfg.severityFilter # "all" /\ severity # cfg.severityFilter THEN FALSE
  ELSE IF Len(cfg.filterCameras) > 0 /\ camera \notin Range(cfg.filterCameras) THEN FALSE
  ELSE IF Len(cfg.filterLabels) > 0
          /\ ~(\E i \in DOMAIN objects : objects[i] \in Range(cfg.filterLabels)) THEN FALSE
  ELSE TRUE

-----------------------------------------------------------------------------
(* processReviewMessage: index.js 1701-1898.                               *)
(* The handler runs synchronously up to `await sendReviewNotification(..)`,*)
(* and writes the tracker only after the await returns.                    *)

NoCall == [reviewId |-> None, camera |-> None, severity |-> None,
           thumbPath |-> None, isImageUpdate |-> FALSE, made |-> FALSE]

(* What the history keeps of a call *)
Logged(call) == [reviewId |-> call.reviewId, isImageUpdate |-> call.isImageUpdate]

ReviewCall(p, isImageUpdate) ==
  [reviewId |-> p.id, camera |-> p.camera, severity |-> p.severity,
   thumbPath |-> p.thumbPath, isImageUpdate |-> isImageUpdate, made |-> TRUE]

Entry(severity, thumbPath, notificationSent) ==
  [severity |-> severity, thumbPath |-> thumbPath, notificationSent |-> notificationSent]

(* const severityChanged / imageChanged: index.js 1816-1817 *)
severityChanged(tracking, p) == tracking.severity # p.severity

imageChanged(tracking, p) == tracking.thumbPath # p.thumbPath

(* Mutant: every alert update counts as an escalation *)
IsEscalation_AnyAlert(tracking, p) == p.severity = "alert"

(* SCENARIO 1, severity escalation: index.js 1820 *)
IsEscalation(tracking, p) == severityChanged(tracking, p) /\ p.severity = "alert"

(* Mutant: the thumb path is not compared *)
IsImageImprovement_AnyImage(tracking, p) ==
  tracking.notificationSent /\ p.severity = "alert"

(* Mutant: a better image is sent whatever the severity of the update *)
IsImageImprovement_AnySeverity(tracking, p) ==
  tracking.notificationSent /\ imageChanged(tracking, p)

(* SCENARIO 2, image improvement: index.js 1851 *)
IsImageImprovement(tracking, p) ==
  tracking.notificationSent /\ imageChanged(tracking, p) /\ p.severity = "alert"

(* Mutant: a silently tracked id is marked as notified *)
SilentEntry_Notified(p) == Entry(p.severity, p.thumbPath, TRUE)

(* The entry of an id tracked without a notification: index.js 1737-1742, *)
(* 1777-1782                                                              *)
SilentEntry(p) == Entry(p.severity, p.thumbPath, FALSE)

(* Mutant: a `new` message the filters reject is never tracked *)
FilteredNew_Untracked(sn, p) == sn

(* A `new` message the filters reject: index.js 1734-1745 *)
FilteredNew(sn, p) ==
  IF p.severity = "detection" THEN MapSet(sn, p.id, SilentEntry(p)) ELSE sn

(* Mutant: an escalation the filters reject leaves the tracked severity *)
FilteredEscalation_Forgotten(tracking, p) == tracking

(* An escalation the filters reject: index.js 1822-1826 *)
FilteredEscalation(tracking, p) == [tracking EXCEPT !.severity = p.severity]

(* Mutant: a detection update tracks the id afresh, as a `new` detection does *)
DetectionUpdate_Retrack(tracking, p) == Entry(p.severity, p.thumbPath, FALSE)

(* Mutant: a detection update takes over the severity of the message *)
DetectionUpdate_Downgrade(tracking, p) ==
  [tracking EXCEPT !.severity = p.severity, !.thumbPath = p.thumbPath]

(* SCENARIO 3, detection level update: index.js 1872-1878. It returns      *)
(* before SCENARIO 4 (1881-1885) is reached, so a downgrade ends here too. *)
DetectionUpdate(tracking, p) ==
  IF imageChanged(tracking, p) THEN [tracking EXCEPT !.thumbPath = p.thumbPath]
  ELSE tracking

(* Mutant: `end` keeps the entry of a notified id *)
EndCleanup_KeepNotified(sn, id) ==
  IF MapHas(sn, id) /\ ~sn[id].notificationSent THEN MapDelete(sn, id) ELSE sn

(* `end`, cleanup only: index.js 1891-1897 *)
EndCleanup(sn, id) == IF MapHas(sn, id) THEN MapDelete(sn, id) ELSE sn

(* The part of the handler before the await: the tracker after its          *)
(* synchronous writes, the call of sendReviewNotification it makes (if any) *)
(* and what it does once the call has returned.                             *)
ReviewSync(sn, cfg, p) ==
  LET tracked == MapHas(sn, p.id)
      tracking == IF tracked THEN sn[p.id] ELSE Entry(None, None, FALSE)
      quiet(sn2) == [sn |-> sn2, call |-> NoCall, then |-> "return"]
      \* sentNotifications.set(reviewId, {...}) of a `new` that sends nothing
      track == quiet(MapSet(sn, p.id, SilentEntry(p)))
  IN
  IF p.type = "new" THEN
    IF ~applyReviewFilters(cfg, p.severity, p.camera, p.objects) THEN
      quiet(FilteredNew(sn, p))
    ELSE IF p.severity = "alert" THEN
      [sn |-> sn, call |-> ReviewCall(p, FALSE), then |-> "set"]
    ELSE track
  ELSE IF p.type = "update" THEN
    IF ~tracked THEN
      IF p.severity = "alert" /\ applyReviewFilters(cfg, p.severity, p.camera, p.objects)
      THEN [sn |-> sn, call |-> ReviewCall(p, FALSE), then |-> "set"]
      ELSE quiet(sn)
    ELSE IF IsEscalation(tracking, p) THEN
      IF ~applyReviewFilters(cfg, p.severity, p.camera, p.objects)
      THEN quiet(MapSet(sn, p.id, FilteredEscalation(tracking, p)))
      ELSE [sn |-> sn, call |-> ReviewCall(p, FALSE), then |-> "escalate"]
    ELSE IF IsImageImprovement(tracking, p) THEN
      [sn |-> sn, call |-> ReviewCall(p, TRUE), then |-> "image"]
    ELSE IF p.severity = "detection" THEN
      quiet(MapSet(sn, p.id, DetectionUpdate(tracking, p)))
    ELSE quiet(sn)
  ELSE IF p.type = "end" THEN quiet(EndCleanup(sn, p.id))
  ELSE quiet(sn)

(* The part of the handler after the await has returned normally. `live`   *)
(* tells whether the object the handler read as `tracking` is still the    *)
(* one the Map holds for the id: "escalate" and "image" write through that *)
(* reference, "set" stores a new object.                                    *)
ReviewResume(sn, call, then, live) ==
  IF then = "set" THEN
    MapSet(sn, call.reviewId, Entry(call.severity, call.thumbPath, TRUE))
  ELSE IF then = "escalate" THEN
    IF live THEN MapSet(sn, call.reviewId, Entry(call.severity, call.thumbPath, TRUE))
    ELSE sn
  ELSE IF then = "image" THEN
    IF live THEN MapSet(sn, call.reviewId, [sn[call.reviewId] EXCEPT !.thumbPath = call.thumbPath])
    ELSE sn
  ELSE sn

(* sendReviewNotification(review): index.js 2137-2268. It returns at once  *)
(* when no token is registered, throws a TypeError at camera.replace when  *)
(* the message has no camera, and otherwise awaits one delivery per token. *)
sendReviewNotification(tokens, call) ==
  IF tokens = {} THEN "skipped"
  ELSE IF call.camera = None THEN "threw"
  ELSE "sent"

(* String.prototype.startsWith *)
StartsWith(s, prefix) == Len(s) >= Len(prefix) /\ SubSeq(s, 1, Len(prefix)) = prefix

(* isFCMToken(token): index.js 1972-1976 *)
isFCMToken(token) == ~StartsWith(token, "ExponentPushToken[")

(* const notificationTag = `review_${reviewId}_alert`: index.js 1987 *)
notificationTag(reviewId) == "review_" \o reviewId \o "_alert"

(* What a request to a push service carries for one device: the service,   *)
(* the device and the tag under which the device replaces an earlier       *)
(* notification (android tag, apns-collapse-id); "none" when the request   *)
(* has no such field.                                                       *)
Message(service, token, reviewId, tag) ==
  [service |-> service, to |-> token, reviewId |-> reviewId, tag |-> tag]

(* proxyPayload of sendFCMNotification: index.js 1997-2039 *)
proxyPayload(fcmToken, call) ==
  Message("proxy", fcmToken, call.reviewId, notificationTag(call.reviewId))

(* message of sendExpoPushNotification: index.js 2084-2102 *)
expoMessage(expoToken, call) == Message("expo", expoToken, call.reviewId, None)

(* One of the messages of sendPushNotifications: index.js 2328-2345 *)
legacyMessage(token) == Message("expo", token, None, None)

NoDelivery ==
  [path |-> None, messages |-> EmptyMap, outcomes |-> EmptyMap, delivered |-> {},
   sent |-> 0, failed |-> 0]

(* The loop of sendReviewNotification over pushTokens: index.js 2218-2267. *)
(* o[t] tells whether the service accepts the request for device t ("ok")  *)
(* or the request fails (returns false or throws; caught per device).      *)
(* `sent` is what the call adds to stats.notificationsSent (successCount), *)
(* `failed` what it adds to stats.notificationsFailed (nothing).           *)
ReviewDelivery(tokens, call, o) ==
  LET delivered == {t \in tokens : o[t] = "ok"}
  IN [path |-> "review",
      messages |-> [t \in tokens |-> IF isFCMToken(t) THEN proxyPayload(t, call)
                                     ELSE expoMessage(t, call)],
      outcomes |-> o, delivered |-> delivered,
      sent |-> Cardinality(delivered), failed |-> 0]

(* sendPushNotifications: index.js 2271-2405. All messages go to the Expo  *)
(* service in one request. When the request is answered, every message is  *)
(* counted as sent and each result of status error as failed; when the     *)
(* request itself fails (`rejected`: a timeout, or the service refusing    *)
(* the batch because of one of its messages) every message is counted as   *)
(* failed and no device is reached.                                         *)
EventDelivery(tokens, o, rejected) ==
  [path |-> "event",
   messages |-> [t \in tokens |-> legacyMessage(t)],
   outcomes |-> o,
   delivered |-> IF rejected THEN {} ELSE {t \in tokens : o[t] = "ok"},
   sent |-> IF rejected THEN 0 ELSE Cardinality(tokens),
   failed |-> IF rejected THEN Cardinality(tokens)
              ELSE Cardinality({t \in tokens : o[t] # "ok"})]

(* The requests to the push services: index.js 2041-2047, 2110-2118,      *)
(* 2375-2386. Each is an axios.post that the sending function awaits.     *)

NoTimeout == 0

(* The service a delivery goes to: the notification proxy for an FCM      *)
(* token and the Expo service for an Expo token on the review path        *)
(* (index.js 2228-2254), one request to the Expo service for all tokens   *)
(* on the legacy path (2375)                                               *)
Service(path, token) ==
  IF path = "event" THEN "expo-batch"
  ELSE IF isFCMToken(token) THEN "proxy" ELSE "expo"

(* The `timeout` option of the axios.post: 10000 at index.js 2046 (proxy) *)
(* and 2384 (legacy batch); the options at 2113-2117 (Expo, review path)  *)
(* name none, and axios then waits without limit.                         *)
RequestTimeout(service) ==
  IF service = "expo" THEN NoTimeout ELSE 10000

NoRequest == [path |-> None, token |-> None, service |-> None, timeout |-> NoTimeout]

Request(path, token) ==
  [path |-> path, token |-> token, service |-> Service(path, token),
   timeout |-> RequestTimeout(Service(path, token))]

(* What the end of a request adds to the counters. Review path: a device  *)
(* reached adds one to notificationsSent (2262), a failure is caught and  *)
(* logged (2255-2258). Legacy path: an answer counts every message as     *)
(* sent (2388), a failed request counts every message as failed (2402).   *)
RequestCounted(st, tokens, r, ok) ==
  IF r.path = "review"
  THEN [st EXCEPT !.notificationsSent = IF ok THEN @ + 1 ELSE @]
  ELSE IF ok THEN [st EXCEPT !.notificationsSent = @ + Cardinality(tokens)]
       ELSE [st EXCEPT !.notificationsFailed = @ + Cardinality(tokens)]

(* The answer assumed where no request is made *)
AllOk(tokens) == [t \in tokens |-> "ok"]

Counted(st, d) ==
  [notificationsSent |-> st.notificationsSent + d.sent,
   notificationsFailed |-> st.notificationsFailed + d.failed]

-----------------------------------------------------------------------------
(* processEventMessage: index.js 1928-1967 *)

(* A template literal prints an undefined value as "undefined". *)
Str(v) == IF v = None THEN "undefined" ELSE v

cooldownKey(camera, label) == Str(camera) \o "_" \o Str(label)

(* Mutant: the camera allowlist is not consulted for legacy events *)
EventFiltersPass_NoCameraRule(cfg, p) ==
  ~(Len(cfg.filterLabels) > 0 /\ p.label \notin Range(cfg.filterLabels))

(* The filters of the legacy path: the event's label and camera against    *)
(* the allowlists; there is no severity rule on this path.                 *)
EventFiltersPass(cfg, p) ==
  IF Len(cfg.filterLabels) > 0 /\ p.label \notin Range(cfg.filterLabels) THEN FALSE
  ELSE IF Len(cfg.filterCameras) > 0 /\ p.camera \notin Range(cfg.filterCameras) THEN FALSE
  ELSE TRUE

(* Mutant: the end of the window is still inside it *)
CooldownActive_Inclusive(nc, cfg, key, t) ==
  /\ MapHas(nc, key)
  /\ nc[key] # 0
  /\ (t - nc[key]) <= cfg.cooldown * MsPerSecond

(* lastNotification && (now - lastNotification) < cooldown * 1000 *)
CooldownActive(nc, cfg, key, t) ==
  /\ MapHas(nc, key)
  /\ nc[key] # 0
  /\ (t - nc[key]) < cfg.cooldown * MsPerSecond

(* Mutant: events of every type reach the filters and the cooldown *)
EventLetThrough_AnyType(nc, cfg, p, t) ==
  /\ EventFiltersPass(cfg, p)
  /\ ~CooldownActive(nc, cfg, cooldownKey(p.camera, p.label), t)

(* Mutant: every event handled restarts the window of its key *)
CooldownAfter_Always(nc, key, t, through) == MapSet(nc, key, t)

(* notificationCooldowns after the handler: set(cooldownKey, now) at     *)
(* index.js 1961, reached only by an event that is let through, before   *)
(* the await of sendPushNotifications at 1966                            *)
CooldownAfter(nc, key, t, through) == IF through THEN MapSet(nc, key, t) ELSE nc

(* TRUE when the event reaches sendPushNotifications *)
EventLetThrough(nc, cfg, p, t) ==
  /\ p.type = "new"
  /\ EventFiltersPass(cfg, p)
  /\ ~CooldownActive(nc, cfg, cooldownKey(p.camera, p.label), t)

-----------------------------------------------------------------------------
(* client.on('message'): index.js 1678-1698 *)

(* topic.includes('reviews') || payload.severity !== undefined: only a     *)
(* severity at the top level of the payload counts.                        *)
isReview(tp, p) == tp = "frigate/reviews" \/ (p.where = "top" /\ p.severity # None)

EventCall(p, t) == [camera |-> p.camera, label |-> p.label, at |-> t]

CameraRulePasses(cfg, camera) ==
  Len(cfg.filterCameras) = 0 \/ camera \in Range(cfg.filterCameras)

(* History of the message handled last: the message (camera and label are *)
(* kept for a legacy event only), the entry its handler read as            *)
(* `tracking`, the filters' verdict on it, and the call it made.           *)
LastOf(p, path, sn, cfg, made, isImageUpdate, outcome) ==
  [type |-> p.type, id |-> p.id, severity |-> p.severity, thumbPath |-> p.thumbPath,
   eventCamera |-> IF path = "event" THEN p.camera ELSE None,
   eventLabel |-> IF path = "event" THEN p.label ELSE None, path |-> path,
   tracked |-> MapHas(sn, p.id),
   pre |-> IF MapHas(sn, p.id) THEN sn[p.id] ELSE Entry(None, None, FALSE),
   allowed |-> IF path = "review"
               THEN applyReviewFilters(cfg, p.severity, p.camera, p.objects)
               ELSE EventFiltersPass(cfg, p),
   made |-> made, isImageUpdate |-> isImageUpdate, outcome |-> outcome]

NoLast ==
  [type |-> None, id |-> None, severity |-> None, thumbPath |-> None,
   eventCamera |-> None, eventLabel |-> None, path |-> None,
   tracked |-> FALSE, pre |-> Entry(None, None, FALSE), allowed |-> FALSE,
   made |-> FALSE, isImageUpdate |-> FALSE, outcome |-> None]

(* processReviewMessage run from its first line to its return (or to the  *)
(* exception the await rethrows), nothing else running in between.         *)
ReviewWhole(sn, cfg, tokens, p) ==
  LET r == ReviewSync(sn, cfg, p)
      outcome == IF r.call.made THEN sendReviewNotification(tokens, r.call) ELSE None
  IN [sn |-> IF r.call.made /\ outcome # "threw"
             THEN ReviewResume(r.sn, r.call, r.then, TRUE)
             ELSE r.sn,
      call |-> r.call, outcome |-> outcome]

(* A review message handled from its arrival to the end of its handler,    *)
(* with no other message handled in between. `answers` are the answers of  *)
(* the push services the deliveries may get, one per device.                *)
ProcessReviewMessage(p, answers) ==
  /\ Len(reviewCalls) < MaxCalls
  /\ handlers = {}
  /\ running
  /\ isReview(topic, p)
  /\ LET w == ReviewWhole(sentNotifications, bridgeConfig, pushTokens, p)
     IN /\ sentNotifications' = w.sn
        /\ \E o \in (IF w.outcome = "sent" THEN answers ELSE {AllOk(pushTokens)}) :
             /\ delivery' = IF w.outcome = "sent" THEN ReviewDelivery(pushTokens, w.call, o)
                             ELSE NoDelivery
             /\ stats' = Counted(stats, delivery')
        /\ reviewCalls' = IF w.call.made THEN Append(reviewCalls, Logged(w.call))
                          ELSE reviewCalls
        /\ last' = LastOf(p, "review", sentNotifications, bridgeConfig,
                          w.call.made, w.call.isImageUpdate, w.outcome)
  /\ insideSeen' = IF CameraRulePasses(bridgeConfig, p.camera)
                   THEN insideSeen \cup {p.id} ELSE insideSeen
  /\ UNCHANGED <<notificationCooldowns, bridgeConfig, registry, topic, inflight, now, handlers,
                 filterCall, eventCalls, arrived>>

(* A legacy event message handled from its arrival to the end of its handler *)
(* with the answer of the push service: o[t] for each device and whether    *)
(* the one request failed as a whole                                        *)
ProcessEventMessage(p, o, rejected) ==
  /\ Len(eventCalls) < MaxCalls
  /\ handlers = {}
  /\ running
  /\ ~isReview(topic, p)
  /\ rejected => \E t \in pushTokens : o[t] # "ok"
  /\ LET key == cooldownKey(p.camera, p.label)
         through == EventLetThrough(notificationCooldowns, bridgeConfig, p, now)
         d == IF through /\ pushTokens # {} THEN EventDelivery(pushTokens, o, rejected)
              ELSE NoDelivery
     IN /\ ~through => (o = AllOk(pushTokens) /\ ~rejected)
        /\ delivery' = d
        /\ stats' = Counted(stats, d)
        /\ notificationCooldowns' = CooldownAfter(notificationCooldowns, key, now, through)
        /\ eventCalls' = IF through THEN Append(eventCalls, EventCall(p, now)) ELSE eventCalls
        /\ last' = LastOf(p, "event", sentNotifications, bridgeConfig, through, FALSE, None)
  /\ UNCHANGED <<sentNotifications, bridgeConfig, registry, topic, inflight, now, handlers,
                 filterCall, reviewCalls, insideSeen, arrived>>

RequestFrame ==
  UNCHANGED <<sentNotifications, notificationCooldowns, bridgeConfig, registry, topic, now,
              handlers, delivery, filterCall, reviewCalls, eventCalls, last, insideSeen,
              arrived>>

(* A sending function issues its axios.post and awaits it *)
RequestStarts(path, token) ==
  /\ running
  /\ inflight = NoRequest
  /\ pushTokens # {}
  /\ stats.notificationsSent + stats.notificationsFailed < MaxRequests
  /\ inflight' = Request(path, token)
  /\ UNCHANGED stats
  /\ RequestFrame

(* The service answers: the await returns or throws into the catch *)
ProviderAnswers(ok) ==
  /\ inflight # NoRequest
  /\ inflight' = NoRequest
  /\ stats' = RequestCounted(stats, pushTokens, inflight, ok)
  /\ RequestFrame

(* axios gives up after `timeout` ms and rejects: the catch runs *)
TimeoutFires ==
  /\ inflight # NoRequest
  /\ inflight.timeout # NoTimeout
  /\ inflight' = NoRequest
  /\ stats' = RequestCounted(stats, pushTokens, inflight, FALSE)
  /\ RequestFrame

(* Mutant: the exception of JSON.parse is not caught and ends the process *)
ParseFailure_Uncaught(run) == FALSE

(* try { JSON.parse(..) .. } catch (err) { console.error(..) }: the        *)
(* exception is logged and the process goes on reading the stream.         *)
ParseFailure(run) == run

(* A message that is not JSON: JSON.parse throws at index.js 1680, before  *)
(* the counters of 1681-1682 and before either handler is called.          *)
ProcessMalformedMessage ==
  /\ running
  /\ handlers = {}
  /\ running' = ParseFailure(running)
  /\ last' = [NoLast EXCEPT !.path = "malformed"]
  /\ delivery' = NoDelivery
  /\ UNCHANGED <<sentNotifications, notificationCooldowns, bridgeConfig, pushTokens, devices, deviceKeys,
                 authToken, response, topic, inflight, now, handlers, stats, filterCall, reviewCalls,
                 eventCalls, insideSeen, arrived>>

-----------------------------------------------------------------------------
(* PUT /config/notifications: index.js 1412-1440. `given` is the set of    *)
(* fields the request body defines; a field it leaves out keeps its value, *)
(* and severityFilter cannot be set here.                                  *)

ConfigFields == {"cooldown", "filterLabels", "filterCameras"}

(* bridgeConfig.notifications after the assignments of 1415-1429 *)
ConfigAfter(cfg, given, cooldown, filterLabels, filterCameras) ==
  [cfg EXCEPT
     !.cooldown = IF "cooldown" \in given THEN cooldown ELSE @,
     !.filterLabels = IF "filterLabels" \in given THEN filterLabels ELSE @,
     !.filterCameras = IF "filterCameras" \in given THEN filterCameras ELSE @]

PutConfigNotifications(given, cooldown, filterLabels, filterCameras) ==
  /\ bridgeConfig' = ConfigAfter(bridgeConfig, given, cooldown, filterLabels, filterCameras)
  /\ UNCHANGED <<sentNotifications, notificationCooldowns, registry, topic, inflight, now, handlers,
                 stats, delivery, filterCall, reviewCalls, eventCalls, last, insideSeen,
                 arrived>>

(* Time passes *)
Tick(d) ==
  /\ now + d <= MaxTime
  /\ now' = now + d
  /\ UNCHANGED <<sentNotifications, notificationCooldowns, bridgeConfig, registry, topic, inflight,
                 handlers, stats, delivery, filterCall, reviewCalls, eventCalls, last,
                 insideSeen, arrived>>

-----------------------------------------------------------------------------
(* The device registry: index.js 1078-1190 *)

Secret == "secret"

(* The templates of a device that has set none: index.js 1145-1148 *)
DefaultTemplates ==
  [title |-> "{label} detected on {camera}", body |-> "Motion in {zones} at {time}"]

(* deviceInfo of /register; of the metadata the name and the templates are *)
(* kept                                                                    *)
Device(token, name) ==
  [token |-> token, name |-> IF name = None THEN "Unknown Device" ELSE name,
   templates |-> DefaultTemplates]

NoResponse == [endpoint |-> None, status |-> 0, authorization |-> None]

Response(endpoint, status, authorization) ==
  [endpoint |-> endpoint, status |-> status, authorization |-> authorization]

(* Values of the Authorization header; "none" is a request without it *)
AuthorizationHeaders ==
  {None, "", "secret", "Bearer secret", "secBearer ret", "Bearer wrong", "Bearer "}

(* Values of pushToken in a request body; "none" is a body without it *)
PushTokenInputs == {None, "short", "0123456789ab", ExpoToken, FcmToken, FcmTokenB}

DeviceNames == {None, "phone"}

MinOf(S) == CHOOSE i \in S : \A j \in S : i <= j

(* s.replace(pattern, ''), pattern a string: the first occurrence goes *)
Remove(s, pattern) ==
  LET hits == {i \in 1..Len(s) :
                 /\ i + Len(pattern) - 1 <= Len(s)
                 /\ SubSeq(s, i, i + Len(pattern) - 1) = pattern}
  IN IF hits = {} THEN s
     ELSE SubSeq(s, 1, MinOf(hits) - 1) \o SubSeq(s, MinOf(hits) + Len(pattern), Len(s))

(* Mutant: any credentials will do, the token is not compared *)
authMiddleware_AnyToken(auth, authorization) ==
  IF auth = None THEN TRUE
  ELSE LET providedToken == IF authorization = None THEN None
                            ELSE Remove(authorization, "Bearer ")
       IN ~(providedToken = None \/ providedToken = "")

(* authMiddleware: index.js 1078-1093. TRUE when next() is called, FALSE *)
(* when the request is answered 401.                                     *)
authMiddleware(auth, authorization) ==
  IF auth = None THEN TRUE
  ELSE LET providedToken == IF authorization = None THEN None
                            ELSE Remove(authorization, "Bearer ")
       IN ~(providedToken = None \/ providedToken = "" \/ providedToken # auth)

(* Map.prototype.set and delete on the order of the keys: a new key goes *)
(* to the end, a key already present keeps its place.                    *)
KeysSet(keys, k) == IF k \in Range(keys) THEN keys ELSE Append(keys, k)

KeysDelete(keys, k) == SelectSeq(keys, LAMBDA x : x # k)

(* The sequences that hold each member of S once *)
Orders(S) == {q \in [1..Cardinality(S) -> S] : Range(q) = S}

(* token.substring(0, 30) *)
Redact(token) == SubSeq(token, 1, IF Len(token) < 30 THEN Len(token) ELSE 30)

(* Values of :token in DELETE /devices/:token: the registered tokens in  *)
(* full, a token as GET /devices prints it (index.js 1287), and tokens   *)
(* no device has                                                          *)
DeleteInputs ==
  {ExpoToken, FcmToken, FcmTokenB, Redact(FcmToken) \o "...", "unknown-token", "Exp"}

(* for (const [key] of devices) { if (key === token ||                   *)
(* key.startsWith(token.substring(0, 30))) { fullToken = key; break; } } *)
(* index.js 1300-1307: the first key in iteration order that matches     *)
FindDevice(keys, token) ==
  LET hits == {i \in DOMAIN keys :
                 keys[i] = token \/ StartsWith(keys[i], Redact(token))}
  IN IF hits = {} THEN None ELSE keys[MinOf(hits)]

(* What a request changes: the others of the registry and all of the     *)
(* bridge stay as they are.                                              *)
RegistryFrame ==
  UNCHANGED <<sentNotifications, notificationCooldowns, bridgeConfig, authToken, running,
              topic, inflight, now, handlers, stats, delivery, filterCall, reviewCalls, eventCalls,
              last, insideSeen, arrived>>

Unauthorized(endpoint, authorization) ==
  /\ response' = Response(endpoint, 401, authorization)
  /\ UNCHANGED <<pushTokens, devices, deviceKeys>>

(* POST /register: index.js 1096, 1117-1166 *)
Register(authorization, pushToken, deviceName) ==
  /\ RegistryFrame
  /\ IF ~authMiddleware(authToken, authorization) THEN Unauthorized("/register", authorization)
     ELSE IF pushToken = None \/ Len(pushToken) < 10
             \/ (~StartsWith(pushToken, "ExponentPushToken[") /\ ~(Len(pushToken) > 50))
     THEN /\ response' = Response("/register", 400, authorization)
          /\ UNCHANGED <<pushTokens, devices, deviceKeys>>
     ELSE /\ pushTokens' = pushTokens \cup {pushToken}
          /\ devices' = MapSet(devices, pushToken,
                               [Device(pushToken, deviceName) EXCEPT
                                  !.templates = IF MapHas(devices, pushToken)
                                                THEN devices[pushToken].templates ELSE @])
          /\ deviceKeys' = KeysSet(deviceKeys, pushToken)
          /\ response' = Response("/register", 200, authorization)

(* Mutant: /unregister forgets the token and keeps the device's metadata *)
Unregister_KeepDevice(authorization, pushToken) ==
  /\ RegistryFrame
  /\ IF ~authMiddleware(authToken, authorization)
     THEN Unauthorized("/unregister", authorization)
     ELSE IF pushToken \in pushTokens
     THEN /\ pushTokens' = pushTokens \ {pushToken}
          /\ response' = Response("/unregister", 200, authorization)
          /\ UNCHANGED <<devices, deviceKeys>>
     ELSE /\ response' = Response("/unregister", 404, authorization)
          /\ UNCHANGED <<pushTokens, devices, deviceKeys>>

(* POST /unregister: index.js 1097, 1169-1182 *)
Unregister(authorization, pushToken) ==
  /\ RegistryFrame
  /\ IF ~authMiddleware(authToken, authorization)
     THEN Unauthorized("/unregister", authorization)
     ELSE IF pushToken \in pushTokens
     THEN /\ pushTokens' = pushTokens \ {pushToken}
          /\ devices' = IF MapHas(devices, pushToken) THEN MapDelete(devices, pushToken)
                         ELSE devices
          /\ deviceKeys' = KeysDelete(deviceKeys, pushToken)
          /\ response' = Response("/unregister", 200, authorization)
     ELSE /\ response' = Response("/unregister", 404, authorization)
          /\ UNCHANGED <<pushTokens, devices, deviceKeys>>

(* DELETE /devices/:token: index.js 1297-1319. No authMiddleware is      *)
(* mounted on the path (1096-1098 name /register, /unregister, /tokens). *)
DeleteDevice(authorization, token) ==
  /\ RegistryFrame
  /\ LET fullToken == FindDevice(deviceKeys, token)
     IN IF fullToken # None /\ fullToken \in pushTokens
        THEN /\ pushTokens' = pushTokens \ {fullToken}
             /\ devices' = MapDelete(devices, fullToken)
             /\ deviceKeys' = KeysDelete(deviceKeys, fullToken)
             /\ response' = Response("DELETE /devices/" \o token, 200, authorization)
        ELSE /\ response' = Response("DELETE /devices/" \o token, 404, authorization)
             /\ UNCHANGED <<pushTokens, devices, deviceKeys>>

(* String.prototype.trim, for the blank the model's strings use *)
RECURSIVE TrimStart(_)
TrimStart(s) ==
  IF Len(s) > 0 /\ SubSeq(s, 1, 1) = " " THEN TrimStart(SubSeq(s, 2, Len(s))) ELSE s

RECURSIVE TrimEnd(_)
TrimEnd(s) ==
  IF Len(s) > 0 /\ SubSeq(s, Len(s), Len(s)) = " "
  THEN TrimEnd(SubSeq(s, 1, Len(s) - 1)) ELSE s

Trim(s) == TrimEnd(TrimStart(s))

(* Values of req.body.templates: `given` is FALSE for a body without the *)
(* field; a title or body of "none" is a missing one                     *)
TemplateInputs ==
  {[given |-> FALSE, title |-> None, body |-> None],
   [given |-> TRUE, title |-> None, body |-> "text"],
   [given |-> TRUE, title |-> "Alert", body |-> ""],
   [given |-> TRUE, title |-> " {camera} ", body |-> "{label} "]}

PreferenceTokens == {ExpoToken, FcmToken, "unknown-token"}

(* PUT /devices/:token/preferences: index.js 1322-1362. No authMiddleware *)
(* is mounted on the path.                                                *)
PutPreferences(authorization, token, templates) ==
  /\ RegistryFrame
  /\ UNCHANGED <<pushTokens, deviceKeys>>
  /\ LET endpoint == "PUT /devices/" \o token \o "/preferences"
     IN IF ~MapHas(devices, token)
        THEN /\ response' = Response(endpoint, 404, authorization)
             /\ UNCHANGED devices
        ELSE IF /\ templates.given
                /\ (templates.title \in {None, ""} \/ templates.body \in {None, ""})
        THEN /\ response' = Response(endpoint, 400, authorization)
             /\ UNCHANGED devices
        ELSE /\ devices' =
                  IF templates.given
                  THEN [devices EXCEPT ![token].templates =
                          [title |-> Trim(templates.title), body |-> Trim(templates.body)]]
                  ELSE devices
             /\ response' = Response(endpoint, 200, authorization)

(* PUT /config/notifications, index.js 1412-1440, with its answer. No     *)
(* authMiddleware is mounted on the path.                                 *)
PutConfigNotificationsRequest(authorization, given, cooldown, filterLabels, filterCameras) ==
  /\ bridgeConfig' = ConfigAfter(bridgeConfig, given, cooldown, filterLabels, filterCameras)
  /\ response' = Response("PUT /config/notifications", 200, authorization)
  /\ UNCHANGED <<sentNotifications, notificationCooldowns, pushTokens, devices, deviceKeys,
                 authToken, running, topic, inflight, now, handlers, stats, delivery, filterCall,
                 reviewCalls, eventCalls, last, insideSeen, arrived>>

(* GET /tokens: index.js 1098, 1185-1190 *)
GetTokens(authorization) ==
  /\ RegistryFrame
  /\ IF ~authMiddleware(authToken, authorization) THEN Unauthorized("/tokens", authorization)
     ELSE /\ response' = Response("/tokens", 200, authorization)
          /\ UNCHANGED <<pushTokens, devices, deviceKeys>>

(* GET /health: index.js 1101-1114 *)
GetHealth(authorization) ==
  /\ RegistryFrame
  /\ response' = Response("/health", 200, authorization)
  /\ UNCHANGED <<pushTokens, devices, deviceKeys>>

NoFilterCall ==
  [made |-> FALSE,
   cfg |-> [severityFilter |-> "alert", filterCameras |-> <<>>, filterLabels |-> <<>>,
            cooldown |-> DefaultCooldown],
   severity |-> None, camera |-> None, objects |-> <<>>,
   result |-> FALSE]

-----------------------------------------------------------------------------
Configs ==
  [severityFilter : SeverityFilters, filterCameras : CameraFilters,
   filterLabels : LabelFilters, cooldown : Cooldowns]

(* The state after start-up: empty tracker and cooldown map; the filter    *)
(* configuration, the tokens and the topic as the environment and the      *)
(* files under data/ give them.                                             *)
Init ==
  /\ sentNotifications = EmptyMap
  /\ notificationCooldowns = EmptyMap
  /\ bridgeConfig \in Configs
  /\ pushTokens \in SUBSET Tokens
  /\ topic \in Topics
  /\ now = MsPerSecond
  /\ handlers = {}
  /\ stats = [notificationsSent |-> 0, notificationsFailed |-> 0]
  /\ devices = [t \in pushTokens |-> Device(t, None)]
  /\ deviceKeys \in Orders(pushTokens)
  /\ authToken \in {None, Secret}
  /\ running = TRUE
  /\ delivery = NoDelivery
  /\ inflight = NoRequest
  /\ filterCall = NoFilterCall
  /\ response = NoResponse
  /\ reviewCalls = <<>>
  /\ eventCalls = <<>>
  /\ last = NoLast
  /\ insideSeen = {}
  /\ arrived = <<>>

(* Review messages of the shape Frigate publishes, the fields under `after` *)
NestedPayloads == {p \in ReviewPayloads : p.where = "after"}

(* The review path, one message at a time *)
Next ==
  \/ \E p \in NestedPayloads : ProcessReviewMessage(p, [pushTokens -> DeviceOutcomes])
  \/ \E given \in SUBSET {"filterLabels", "filterCameras"}, fl \in LabelFilters,
        fc \in CameraFilters : PutConfigNotifications(given, DefaultCooldown, fl, fc)

InitReview ==
  /\ Init
  /\ bridgeConfig.cooldown = DefaultCooldown
  /\ topic = "frigate/reviews"
  /\ pushTokens \subseteq {ExpoToken}
  /\ authToken = None

Spec == InitReview /\ [][Next]_vars

(* The legacy event path, one message at a time, every request to the push *)
(* service answered without an error (SpecDelivery has the other answers)   *)
NextLegacy ==
  \/ \E p \in EventPayloads : ProcessEventMessage(p, AllOk(pushTokens), FALSE)
  \/ \E c \in Cooldowns : PutConfigNotifications({"cooldown"}, c, <<>>, <<>>)
  \/ \E d \in TickSteps : Tick(d)

InitLegacy ==
  /\ Init
  /\ topic = "frigate/events"
  /\ bridgeConfig.severityFilter = "alert"
  /\ pushTokens = {ExpoToken}
  /\ authToken = None

SpecLegacy == InitLegacy /\ [][NextLegacy]_vars

(* The requests of the deliveries. The timer of axios is the bridge's own *)
(* and always fires (weak fairness); nothing obliges a push service to    *)
(* answer, so ProviderAnswers has no fairness condition.                   *)
NextTimeout ==
  \/ \E t \in pushTokens : RequestStarts("review", t)
  \/ RequestStarts("event", None)
  \/ TimeoutFires
  \/ \E ok \in BOOLEAN : ProviderAnswers(ok)

InitTimeout ==
  /\ Init
  /\ bridgeConfig.filterCameras = <<>>
  /\ bridgeConfig.filterLabels = <<>>
  /\ bridgeConfig.cooldown = DefaultCooldown
  /\ authToken = None

SpecTimeout == InitTimeout /\ [][NextTimeout]_vars /\ WF_vars(TimeoutFires)

(* The cooldown gate with deliveries that fail: events of one camera, time *)
(* passing, the push service answering, refusing a device or failing the   *)
(* whole request                                                           *)
EventsOfOneCamera == {p \in EventPayloads : p.camera = "front"}

NextCooldown ==
  \/ \E p \in EventsOfOneCamera, o \in [pushTokens -> DeviceOutcomes], rejected \in BOOLEAN :
       ProcessEventMessage(p, o, rejected)
  \/ \E d \in TickSteps : Tick(d)

InitCooldown ==
  /\ InitLegacy
  /\ bridgeConfig.filterCameras = <<>>
  /\ bridgeConfig.cooldown \in {1, DefaultCooldown}

SpecCooldown == InitCooldown /\ [][NextCooldown]_vars

-----------------------------------------------------------------------------
(* The review path as client.on('message') runs it: the handler of a       *)
(* message is an async function the emitter does not wait for, so a        *)
(* message that arrives while an earlier handler is suspended at           *)
(* `await sendReviewNotification(..)` is handled before that handler       *)
(* resumes. Only a call that reaches the deliveries ("sent") is taken to   *)
(* suspend for longer than the arrival of the next message.                *)

Handler(p, r, n) ==
  [id |-> p.id, call |-> r.call, then |-> r.then, live |-> TRUE, n |-> n]

(* TRUE when the synchronous part stores a new object for the id or        *)
(* deletes the id: references read earlier no longer reach the Map.        *)
Replaces(sn, cfg, p) ==
  \/ p.type = "end" /\ MapHas(sn, p.id)
  \/ /\ p.type = "new"
     /\ IF applyReviewFilters(cfg, p.severity, p.camera, p.objects)
        THEN p.severity # "alert"
        ELSE p.severity = "detection"

Unlink(hs, id) == {IF h.id = id THEN [h EXCEPT !.live = FALSE] ELSE h : h \in hs}

MessageArrives(p) ==
  /\ Len(arrived) < MaxArrived
  /\ running
  /\ isReview(topic, p)
  /\ LET r == ReviewSync(sentNotifications, bridgeConfig, p)
         outcome == IF r.call.made THEN sendReviewNotification(pushTokens, r.call) ELSE None
         hs == IF Replaces(sentNotifications, bridgeConfig, p)
                  \/ (outcome = "skipped" /\ r.then = "set")
               THEN Unlink(handlers, p.id) ELSE handlers
     IN /\ sentNotifications' =
             IF outcome = "skipped" THEN ReviewResume(r.sn, r.call, r.then, TRUE) ELSE r.sn
        /\ handlers' = IF outcome = "sent"
                       THEN hs \cup {Handler(p, r, Len(arrived))} ELSE hs
        /\ delivery' = IF outcome = "sent" THEN delivery ELSE NoDelivery
        /\ reviewCalls' = IF r.call.made THEN Append(reviewCalls, Logged(r.call))
                          ELSE reviewCalls
        /\ last' = LastOf(p, "review", sentNotifications, bridgeConfig,
                          r.call.made, r.call.isImageUpdate, outcome)
  /\ insideSeen' = IF CameraRulePasses(bridgeConfig, p.camera)
                   THEN insideSeen \cup {p.id} ELSE insideSeen
  /\ arrived' = Append(arrived, p)
  /\ UNCHANGED <<notificationCooldowns, bridgeConfig, registry, topic, inflight, now, stats,
                 filterCall, eventCalls>>

(* sendReviewNotification has returned: the handler h runs to its end *)
DeliveryReturns(h, o) ==
  /\ h \in handlers
  /\ sentNotifications' = ReviewResume(sentNotifications, h.call, h.then, h.live)
  /\ delivery' = ReviewDelivery(pushTokens, h.call, o)
  /\ stats' = Counted(stats, delivery')
  /\ handlers' = IF h.then = "set" THEN Unlink(handlers \ {h}, h.id) ELSE handlers \ {h}
  /\ UNCHANGED <<notificationCooldowns, bridgeConfig, registry, topic, inflight, now, filterCall,
                 reviewCalls, eventCalls, last, insideSeen, arrived>>

AsyncPayloads ==
  {p \in ReviewPayloads : p.where = "after" /\ p.camera = "front" /\ p.objects = <<"person">>}

NextAsync ==
  \/ \E p \in AsyncPayloads : MessageArrives(p)
  \/ \E h \in handlers, o \in [pushTokens -> DeviceOutcomes] : DeliveryReturns(h, o)

InitAsync == InitReview

SpecAsync == InitAsync /\ [][NextAsync]_vars

-----------------------------------------------------------------------------
(* applyReviewFilters called on its own, on an input of any shape, next to *)
(* `new` detections that fill the tracker                                   *)

FilterObjectLists == {<<>>, <<"person">>, <<"car">>, <<"car", "person">>}

CallApplyReviewFilters(severity, camera, objects) ==
  /\ filterCall' =
       [made |-> TRUE, cfg |-> bridgeConfig, severity |-> severity, camera |-> camera,
        objects |-> objects,
        result |-> applyReviewFilters(bridgeConfig, severity, camera, objects)]
  /\ UNCHANGED <<sentNotifications, notificationCooldowns, bridgeConfig, registry, topic, inflight,
                 now, handlers, stats, delivery, reviewCalls, eventCalls, last, insideSeen,
                 arrived>>

NewDetections == {p \in AsyncPayloads : p.type = "new" /\ p.severity = "detection"}

NextFilter ==
  \/ \E severity \in Severities, camera \in Cameras, objects \in FilterObjectLists :
       CallApplyReviewFilters(severity, camera, objects)
  \/ \E p \in NewDetections : ProcessReviewMessage(p, {AllOk(pushTokens)})

InitFilter == InitReview /\ pushTokens = {}

SpecFilter == InitFilter /\ [][NextFilter]_vars

-----------------------------------------------------------------------------
(* Both paths with the answers of the push services, and messages that are *)
(* not JSON, one message at a time                                          *)

EitherShape == {p \in ReviewPayloads : p.camera = "front" /\ p.objects = <<"person">>}

EventsOfOnePair == {p \in EventPayloads : p.camera = "front" /\ p.label = "person"}

NextDelivery ==
  \/ \E p \in EitherShape : ProcessReviewMessage(p, [pushTokens -> DeviceOutcomes])
  \/ \E p \in EventsOfOnePair, o \in [pushTokens -> DeviceOutcomes], rejected \in BOOLEAN :
       ProcessEventMessage(p, o, rejected)
  \/ ProcessMalformedMessage

InitDelivery ==
  /\ Init
  /\ bridgeConfig.severityFilter = "alert"
  /\ bridgeConfig.filterCameras = <<>>
  /\ bridgeConfig.filterLabels = <<>>
  /\ bridgeConfig.cooldown \in {0, DefaultCooldown}
  /\ authToken = None

SpecDelivery == InitDelivery /\ [][NextDelivery]_vars

-----------------------------------------------------------------------------
(* The registration endpoints *)

NextRegistry ==
  \/ \E a \in AuthorizationHeaders, t \in PushTokenInputs, n \in DeviceNames :
       Register(a, t, n)
  \/ \E a \in AuthorizationHeaders, t \in PushTokenInputs : Unregister(a, t)
  \/ \E a \in AuthorizationHeaders : GetTokens(a)
  \/ \E a \in {None, "Bearer secret"}, t \in DeleteInputs : DeleteDevice(a, t)
  \/ \E a \in {None, "Bearer secret"}, t \in PreferenceTokens, tp \in TemplateInputs :
       PutPreferences(a, t, tp)
  \/ \E a \in {None, "Bearer secret"}, fc \in CameraFilters :
       PutConfigNotificationsRequest(a, {"filterCameras"}, DefaultCooldown, <<>>, fc)
  \/ \E a \in AuthorizationHeaders : GetHealth(a)

InitRegistry ==
  /\ Init
  /\ bridgeConfig.severityFilter = "alert"
  /\ bridgeConfig.filterCameras = <<>>
  /\ bridgeConfig.filterLabels = <<>>
  /\ bridgeConfig.cooldown = DefaultCooldown
  /\ topic = "frigate/reviews"

SpecRegistry == InitRegistry /\ [][NextRegistry]_vars

TypeOK ==
  /\ bridgeConfig \in Configs
  /\ Len(reviewCalls) <= MaxCalls
  /\ Len(eventCalls) <= MaxCalls

-----------------------------------------------------------------------------
(* Properties of the review tracker, one message handled at a time (Spec)  *)

LastIsReview(type) == last.path = "review" /\ last.type = type

Tracks(id) == MapHas(sentNotifications, id)

(* Calls for id with isImageUpdate=false made before the first call for id *)
(* with isImageUpdate=true                                                 *)
SendsBeforeFirstImage(id) ==
  {i \in DOMAIN reviewCalls :
     /\ reviewCalls[i].reviewId = id
     /\ ~reviewCalls[i].isImageUpdate
     /\ \A j \in 1..i : ~(reviewCalls[j].reviewId = id /\ reviewCalls[j].isImageUpdate)}

\* C1 as stated: for every sequence of review messages of one reviewId (repeated
\* `new` and `end` included), at most one call with isImageUpdate=false is
\* made for the id before the first call with isImageUpdate=true.
C1_AtMostOneSendBeforeImage ==
  \A id \in ReviewIds : Cardinality(SendsBeforeFirstImage(id)) <= 1

\* C1 as amended: once the tracker holds the id as notified, no `update`
\* message makes a call with isImageUpdate=false for it (only `new`, or an
\* `update` after `end` removed the entry, sends again).
C1_NoResendOnceNotified ==
  (LastIsReview("update") /\ last.tracked /\ last.pre.notificationSent)
    => ~(last.made /\ ~last.isImageUpdate)

C1_Witness ==
  /\ LastIsReview("update") /\ last.tracked /\ last.pre.notificationSent
  /\ last.severity = "alert" /\ last.made /\ last.isImageUpdate
  /\ Len(reviewCalls) = 2 /\ ~reviewCalls[1].isImageUpdate

\* C2: an `update` to alert that passes the filters, for an id tracked as
\* detection and not notified, makes exactly one call with
\* isImageUpdate=false and leaves the entry {alert, thumb path of the
\* update, notificationSent=true}.
C2_EscalationSendsAndMarks ==
  (/\ LastIsReview("update") /\ last.severity = "alert" /\ last.allowed
   /\ last.tracked /\ last.pre.severity = "detection" /\ ~last.pre.notificationSent)
    => /\ last.made /\ ~last.isImageUpdate
       /\ Tracks(last.id)
       /\ sentNotifications[last.id] = Entry("alert", last.thumbPath, TRUE)

\* C3: a `new` alert that passes applyReviewFilters makes exactly one call
\* with isImageUpdate=false and leaves the entry {alert, thumb path of the
\* message, notificationSent=true}.
C3_NewAlertSendsAndMarks ==
  (LastIsReview("new") /\ last.severity = "alert" /\ last.allowed)
    => /\ last.made /\ ~last.isImageUpdate
       /\ Tracks(last.id)
       /\ sentNotifications[last.id] = Entry("alert", last.thumbPath, TRUE)

\* C4: an `update` with severity alert and the tracked thumb path, for an id
\* tracked with severity alert, makes no call and leaves the entry as it was
\* (so a duplicate of such an update adds no dispatch).
C4_SameImageNoOp ==
  (/\ LastIsReview("update") /\ last.severity = "alert"
   /\ last.tracked /\ last.pre.severity = "alert" /\ last.pre.thumbPath = last.thumbPath)
    => /\ ~last.made
       /\ Tracks(last.id)
       /\ sentNotifications[last.id] = last.pre

C4_Witness ==
  /\ LastIsReview("update") /\ last.severity = "alert"
  /\ last.tracked /\ last.pre = Entry("alert", last.thumbPath, TRUE)
  /\ Len(reviewCalls) = 1

\* C5: after an `end` the tracker holds no entry for the id, whatever its
\* notificationSent flag was, and `end` makes no call; a `new` alert that
\* passes the filters for an id with no entry (never seen, or ended) makes a
\* call with isImageUpdate=false and tracks the id as notified.
C5_EndClearsAndRetriggers ==
  /\ LastIsReview("end") => ~Tracks(last.id) /\ ~last.made
  /\ (LastIsReview("new") /\ last.severity = "alert" /\ last.allowed /\ ~last.tracked)
       => /\ last.made /\ ~last.isImageUpdate
          /\ last.outcome # "threw"
               => /\ Tracks(last.id)
                  /\ sentNotifications[last.id] = Entry("alert", last.thumbPath, TRUE)

(* A second SendNew for an id whose entry an `end` removed: with no token  *)
(* registered no call throws, so only `end` can have removed the entry.    *)
C5_Witness ==
  /\ pushTokens = {}
  /\ LastIsReview("new") /\ last.severity = "alert" /\ last.allowed /\ ~last.tracked
  /\ Len(reviewCalls) = 2
  /\ reviewCalls[1].reviewId = last.id /\ reviewCalls[2].reviewId = last.id
  /\ ~reviewCalls[1].isImageUpdate /\ ~reviewCalls[2].isImageUpdate

\* C6: an `update` with severity detection for an id tracked with severity
\* alert makes no call and leaves notificationSent as it was.
C6_DowngradeKeepsNotified ==
  (/\ LastIsReview("update") /\ last.severity = "detection"
   /\ last.tracked /\ last.pre.severity = "alert")
    => /\ ~last.made
       /\ Tracks(last.id)
       /\ sentNotifications[last.id].notificationSent = last.pre.notificationSent

C6_Witness ==
  /\ LastIsReview("update") /\ last.severity = "detection"
  /\ last.tracked /\ last.pre.severity = "alert" /\ last.pre.notificationSent
  /\ Tracks(last.id) /\ sentNotifications[last.id].notificationSent

\* C7: an `update` with severity alert and a thumb path other than the
\* tracked one, for an id tracked as {alert, notificationSent=true}, makes
\* exactly one call with isImageUpdate=true and changes only the tracked
\* thumb path, to the new one; no other decision sets isImageUpdate.
C7_ImageUpdateReplacesThumb ==
  LET improves == /\ LastIsReview("update") /\ last.severity = "alert"
                  /\ last.tracked /\ last.pre.severity = "alert"
                  /\ last.pre.notificationSent /\ last.pre.thumbPath # last.thumbPath
  IN /\ improves
          => /\ last.made /\ last.isImageUpdate
             /\ Tracks(last.id)
             /\ sentNotifications[last.id] = [last.pre EXCEPT !.thumbPath = last.thumbPath]
     /\ (last.path = "review" /\ last.made /\ last.isImageUpdate) => improves

C14_NoSeverityIsRejected ==
  (last.path = "review" /\ last.severity = None) => (~last.allowed /\ ~last.made)

C26_OrphanUpdateFailsafe ==
  (LastIsReview("update") /\ ~last.tracked)
    => IF last.severity = "alert" /\ last.allowed
       THEN /\ last.made /\ ~last.isImageUpdate
            /\ Tracks(last.id)
            /\ sentNotifications[last.id] = Entry("alert", last.thumbPath, TRUE)
       ELSE ~last.made /\ ~Tracks(last.id)

\* C27: a `new` review message that the filters reject makes no call; with
\* severity detection the entry {detection, thumb path, notificationSent=false}
\* is created for the id, with severity alert the tracker is as it was.
C27_FilteredNew ==
  (LastIsReview("new") /\ ~last.allowed)
    => /\ ~last.made
       /\ last.severity = "detection"
            => /\ Tracks(last.id)
               /\ sentNotifications[last.id] = Entry("detection", last.thumbPath, FALSE)
       /\ last.severity = "alert"
            => /\ Tracks(last.id) = last.tracked
               /\ last.tracked => sentNotifications[last.id] = last.pre

(* A `new` alert outside the camera allowlist, for an id tracked as detection *)
C27_Witness ==
  /\ LastIsReview("new") /\ ~last.allowed /\ last.severity = "alert"
  /\ bridgeConfig.severityFilter = "alert" /\ Len(bridgeConfig.filterCameras) > 0
  /\ last.tracked /\ last.pre.severity = "detection"
  /\ Tracks(last.id)

\* C28: an `update` with severity alert that the filters reject, for an id
\* tracked as detection, makes no call, sets the tracked severity to alert
\* and leaves notificationSent and the tracked thumb path as they were.
C28_FilteredEscalation ==
  (/\ LastIsReview("update") /\ last.severity = "alert" /\ ~last.allowed
   /\ last.tracked /\ last.pre.severity = "detection")
    => /\ ~last.made
       /\ Tracks(last.id)
       /\ sentNotifications[last.id] = [last.pre EXCEPT !.severity = "alert"]

(* The update brings another thumb path, which is not taken over *)
C28_Witness ==
  /\ LastIsReview("update") /\ last.severity = "alert" /\ ~last.allowed
  /\ last.tracked /\ last.pre.severity = "detection"
  /\ last.pre.thumbPath # last.thumbPath
  /\ Tracks(last.id) /\ sentNotifications[last.id].severity = "alert"

\* C29: an `update` with severity detection for an id tracked with severity
\* alert (a downgrade) sets the tracked severity to detection.
C29_DowngradeIsTracked ==
  (/\ LastIsReview("update") /\ last.severity = "detection"
   /\ last.tracked /\ last.pre.severity = "alert")
    => /\ Tracks(last.id)
       /\ sentNotifications[last.id].severity = "detection"

C31_SendDecisionMarksNotified ==
  (last.path = "review" /\ last.made /\ ~last.isImageUpdate)
    => Tracks(last.id) /\ sentNotifications[last.id].notificationSent

C37_EverySendPassesTheFilters ==
  (last.path = "review" /\ last.made) => last.allowed

\* C19: with severityFilter = detection or all, a `new` review of severity
\* detection that applyReviewFilters lets through results in a call of
\* sendReviewNotification.
C19_DetectionFilterNotifiesDetections ==
  (/\ LastIsReview("new") /\ last.severity = "detection" /\ last.allowed
   /\ bridgeConfig.severityFilter \in {"detection", "all"})
    => last.made

\* C16: while an entry for a reviewId stays in the tracker its
\* notificationSent flag never goes from true to false, repeated `new`
\* messages for a tracked id included.
C16_NotifiedFlagIsMonotonic ==
  [][ \A id \in ReviewIds :
        (/\ MapHas(sentNotifications, id) /\ sentNotifications[id].notificationSent
         /\ MapHas(sentNotifications', id))
          => sentNotifications'[id].notificationSent ]_vars

-----------------------------------------------------------------------------
(* Properties of the legacy event path (SpecLegacy)                        *)

SamePair(call, l) == call.camera = l.eventCamera /\ call.label = l.eventLabel

(* The step handles a legacy event: only processEventMessage writes these *)
EventHandled == last' # last \/ eventCalls' # eventCalls

\* C9: when a legacy `new` event passes the filters and the event let
\* through last had the same camera and label, it is suppressed (no call of
\* sendPushNotifications) if it arrives less than cooldown seconds after that
\* event, and is let through (one more call) if the cooldown has elapsed.
C9_CooldownGate ==
  [][ (/\ EventHandled
       /\ last'.path = "event" /\ last'.type = "new" /\ last'.allowed
       /\ Len(eventCalls) > 0
       /\ SamePair(eventCalls[Len(eventCalls)], last'))
        => LET first == eventCalls[Len(eventCalls)]
               within == now - first.at < bridgeConfig.cooldown * MsPerSecond
           IN /\ within => ~last'.made /\ eventCalls' = eventCalls
              /\ ~within => /\ last'.made
                            /\ eventCalls' = Append(eventCalls, [first EXCEPT !.at = now])
    ]_vars

\* C18: the cooldown is per camera: a legacy `new` event that passes the
\* filters is not let through while an event of the same camera, whatever
\* its label, was let through less than cooldown seconds before.
C18_CooldownIsPerCamera ==
  [][ (/\ EventHandled
       /\ last'.path = "event" /\ last'.type = "new" /\ last'.allowed
       /\ \E i \in DOMAIN eventCalls :
            /\ eventCalls[i].camera = last'.eventCamera
            /\ now - eventCalls[i].at < bridgeConfig.cooldown * MsPerSecond)
        => ~last'.made ]_vars

\* C22: the cooldown entry of a (camera, label) pair is shared with no other
\* pair: a legacy `new` event that passes the filters is let through unless
\* an event of the same camera and the same label was let through less than
\* cooldown seconds before, also for cameras and labels that contain the
\* separator (camera a_b with label c, camera a with label b_c).
C22_CooldownKeyIsUnambiguous ==
  [][ (/\ EventHandled
       /\ last'.path = "event" /\ last'.type = "new" /\ last'.allowed
       /\ ~\E i \in DOMAIN eventCalls :
             /\ SamePair(eventCalls[i], last')
             /\ now - eventCalls[i].at < bridgeConfig.cooldown * MsPerSecond)
        => last'.made ]_vars

\* C33 as stated: a legacy event is sent only if the review filters, the
\* severity rule included, allow it: it carries no severity, so none is
\* sent while severityFilter is alert or detection.
C33_EventsPassTheSeverityRule ==
  (last.path = "event" /\ last.made)
    => applyReviewFilters(bridgeConfig, None, last.eventCamera, <<last.eventLabel>>)

\* C33 as amended: a legacy event is sent only if it is of type `new` and the
\* label allowlist and the camera allowlist allow it; the severity rule is
\* not applied on the legacy path, events are sent whatever severityFilter
\* is.
C33_EventsPassTheAllowlists ==
  (last.path = "event" /\ last.made)
    => /\ last.type = "new"
       /\ Len(bridgeConfig.filterLabels) > 0
            => last.eventLabel \in Range(bridgeConfig.filterLabels)
       /\ Len(bridgeConfig.filterCameras) > 0
            => last.eventCamera \in Range(bridgeConfig.filterCameras)

(* An event sent under severityFilter alert with both allowlists set *)
C33_Witness ==
  /\ last.path = "event" /\ last.made
  /\ bridgeConfig.severityFilter = "alert"
  /\ Len(bridgeConfig.filterLabels) > 0 /\ Len(bridgeConfig.filterCameras) > 0
  /\ Len(eventCalls) > 0

\* C40: a legacy event that the cooldown gate suppresses or a filter rejects
\* leaves the cooldown map as it was; an event that is let through records
\* the time of its handling under its key, whatever the deliveries answer.
C40_OnlySentEventsRestartTheWindow ==
  [][ (now' = now /\ last'.path = "event")
        => /\ ~last'.made => notificationCooldowns' = notificationCooldowns
           /\ last'.made
                => notificationCooldowns' =
                     MapSet(notificationCooldowns,
                            cooldownKey(last'.eventCamera, last'.eventLabel), now) ]_vars

(* An event suppressed inside the window that an event whose request failed *)
(* has opened: the recorded time is still that of the first event          *)
C40_Witness ==
  /\ last.path = "event" /\ last.type = "new" /\ last.allowed /\ ~last.made
  /\ stats.notificationsFailed = 1 /\ stats.notificationsSent = 0
  /\ MapHas(notificationCooldowns, cooldownKey(last.eventCamera, last.eventLabel))
  /\ notificationCooldowns[cooldownKey(last.eventCamera, last.eventLabel)] < now

(* Two events of one camera and label let through, a full cooldown apart *)
C9_Witness ==
  /\ Len(eventCalls) = 2
  /\ eventCalls[1].camera = eventCalls[2].camera
  /\ eventCalls[1].label = eventCalls[2].label
  /\ bridgeConfig.cooldown = 1
  /\ eventCalls[2].at - eventCalls[1].at >= bridgeConfig.cooldown * MsPerSecond
  /\ last.path = "event" /\ last.made

-----------------------------------------------------------------------------
(* Properties of concurrent handling (SpecAsync)                           *)

(* The messages msgs[i..] handled one after the other, in order *)
RECURSIVE Replay(_, _, _, _)
Replay(msgs, i, sn, calls) ==
  IF i > Len(msgs) THEN [sn |-> sn, calls |-> calls]
  ELSE LET w == ReviewWhole(sn, bridgeConfig, pushTokens, msgs[i])
       IN Replay(msgs, i + 1, w.sn,
                 IF w.call.made THEN Append(calls, Logged(w.call)) ELSE calls)

\* C10: handling is atomic per reviewId, so once every handler has finished
\* the tracker and the calls made equal those of handling the messages one
\* after the other in arrival order, also when a message arrived while the
\* handler of an earlier one was awaiting delivery.
C10_AsIfOneAtATime ==
  handlers = {}
    => LET r == Replay(arrived, 1, EmptyMap, <<>>)
       IN sentNotifications = r.sn /\ reviewCalls = r.calls

(* The messages that arrived before the last one and after the last `end` *)
(* among them                                                              *)
SinceLastEnd ==
  LET before == 1..(Len(arrived) - 1)
      ends == {i \in before : arrived[i].type = "end"}
  IN {i \in before : \A e \in ends : e < i}

\* C34: when `end` is the message that arrived last and every handler has
\* finished, the tracker holds no entry for its id, also when the `end` was
\* handled while the send of an earlier `new` or `update` was awaiting
\* delivery.
C34_EndLeavesNoEntry ==
  (/\ handlers = {}
   /\ Len(arrived) > 0
   /\ arrived[Len(arrived)].type = "end")
    => ~Tracks(arrived[Len(arrived)].id)

\* C35: a call with isImageUpdate=true for an id is made only if a call with
\* isImageUpdate=false was made for it before and no `end` was handled in
\* between: some message that arrived after the last `end` is an alert
\* `new` or `update`.
C35_ImageUpdateFollowsASend ==
  (last.path = "review" /\ last.made /\ last.isImageUpdate)
    => \E i \in SinceLastEnd :
         arrived[i].type \in {"new", "update"} /\ arrived[i].severity = "alert"

-----------------------------------------------------------------------------
(* Properties of the deliveries and of the message stream (SpecDelivery)   *)

(* The devices whose own delivery does not fail *)
Healthy(d) == {t \in DOMAIN d.outcomes : d.outcomes[t] = "ok"}

\* C11: for every dispatch, on the review path and on the legacy path, the
\* failure of the delivery for one device does not keep the others from being
\* attempted and counted: every registered device has a message, every device
\* whose own delivery does not fail is reached and counted in
\* notificationsSent, and no more failures are counted than devices failed.
C11_FailureIsPerDevice ==
  delivery.path # None
    => /\ DOMAIN delivery.messages = pushTokens
       /\ Healthy(delivery) \subseteq delivery.delivered
       /\ delivery.sent >= Cardinality(Healthy(delivery))
       /\ delivery.failed <= Cardinality(pushTokens \ Healthy(delivery))

\* C21: on the review path every device whose delivery fails adds one to
\* stats.notificationsFailed.
C21_ReviewFailuresAreCounted ==
  [][ (last'.path = "review" /\ delivery'.path = "review")
        => stats'.notificationsFailed =
             stats.notificationsFailed
               + Cardinality(DOMAIN delivery'.outcomes \ Healthy(delivery')) ]_vars

\* C23: a legacy event of type update or end is ignored: no call of
\* sendPushNotifications, no request, no counter moved, and the cooldown map
\* and the review tracker are left as they were.
C23_OnlyNewEventsAreHandled ==
  [][ (last'.path = "event" /\ last'.type \in {"update", "end"})
        => /\ ~last'.made
           /\ delivery' = NoDelivery
           /\ UNCHANGED <<notificationCooldowns, sentNotifications, eventCalls,
                          reviewCalls, stats>> ]_vars

(* An `end` event arrives with an open cooldown and a tracked review *)
C23_Witness ==
  /\ last.path = "event" /\ last.type = "end" /\ last.allowed
  /\ MapHas(notificationCooldowns, cooldownKey(last.eventCamera, last.eventLabel))
  /\ Tracks("r1")
  /\ pushTokens # {}

\* C17: every message sent for a review, to the notification proxy
\* (FCM-style devices) and to the Expo service (Expo-style devices), for a
\* first notification and for an image update alike, carries the tag
\* review_<id>_alert computed from the reviewId alone.
C17_TagIsFromReviewId ==
  delivery.path = "review"
    => \A t \in DOMAIN delivery.messages :
         delivery.messages[t].tag = "review_" \o delivery.messages[t].reviewId \o "_alert"

\* C13: a broker message that is not JSON changes neither the review tracker
\* nor the cooldown map, makes no call of sendReviewNotification or
\* sendPushNotifications, and leaves the process reading the stream.
C13_MalformedIsDiscarded ==
  [][ last'.path = "malformed"
        => /\ UNCHANGED <<sentNotifications, notificationCooldowns, reviewCalls, eventCalls>>
           /\ running' ]_vars

(* A malformed message arrived while an id was tracked as notified *)
C13_Witness ==
  /\ last.path = "malformed"
  /\ running
  /\ \E id \in ReviewIds : Tracks(id) /\ sentNotifications[id].notificationSent
  /\ Len(reviewCalls) = 1

-----------------------------------------------------------------------------
(* Properties of concurrent handling, continued (SpecAsync)                *)

\* C12: the handler records its decision in the tracker without waiting for
\* the deliveries: once a message that decided to send (isImageUpdate=false)
\* has been taken from the stream, the tracker holds its id as {alert, thumb
\* path of the message, notificationSent=true}, whether or not the
\* deliveries have returned.
C12_TrackerDoesNotWaitForDelivery ==
  (LastIsReview("new") /\ last.made /\ ~last.isImageUpdate /\ last.outcome = "sent")
    => /\ Tracks(last.id)
       /\ sentNotifications[last.id] = Entry("alert", last.thumbPath, TRUE)

-----------------------------------------------------------------------------
(* Properties of the filter (SpecFilter)                                   *)

\* C15: applyReviewFilters(severity, camera, objects) returns true exactly
\* when (severityFilter = all or severity = severityFilter) and (filterCameras
\* is empty or holds camera) and (filterLabels is empty or holds at least one
\* of objects), and the call changes neither the tracker nor the
\* configuration.
C15_FilterIsTheConjunction ==
  /\ [](filterCall.made
         => (filterCall.result
              <=> /\ \/ filterCall.cfg.severityFilter = "all"
                     \/ filterCall.severity = filterCall.cfg.severityFilter
                  /\ \/ filterCall.cfg.filterCameras = <<>>
                     \/ filterCall.camera \in Range(filterCall.cfg.filterCameras)
                  /\ \/ filterCall.cfg.filterLabels = <<>>
                     \/ Range(filterCall.objects) \cap Range(filterCall.cfg.filterLabels) # {}))
  /\ [][filterCall' # filterCall => UNCHANGED <<sentNotifications, bridgeConfig>>]_vars

(* A call that passes the three rules on two objects, one of them allowed, *)
(* made while an id is tracked                                             *)
C15_Witness ==
  /\ filterCall.made /\ filterCall.result
  /\ filterCall.cfg.filterLabels = <<"person">> /\ filterCall.objects = <<"car", "person">>
  /\ filterCall.cfg.filterCameras = <<"front">>
  /\ filterCall.cfg.severityFilter = "detection"
  /\ \E id \in ReviewIds : Tracks(id)

-----------------------------------------------------------------------------
(* Properties of the registration endpoints (SpecRegistry)                 *)

GuardedEndpoints == {"/register", "/unregister", "/tokens"}

(* The step answers a request *)
Answered == response' # response

(* The header values from which removing one `Bearer ` leaves the token: *)
(* the token alone, or the token with `Bearer ` put in at some place      *)
Bearing(token) ==
  {token} \cup {SubSeq(token, 1, i) \o "Bearer " \o SubSeq(token, i + 1, Len(token)) :
                  i \in 0..Len(token)}

\* C20 as stated: with AUTH_TOKEN set, a request to /register, /unregister
\* or /tokens without the header `Authorization: Bearer <AUTH_TOKEN>` is
\* answered 401 and changes neither the token set nor the device map; /health
\* is answered without credentials; with AUTH_TOKEN not set no request is
\* answered 401.
C20_BearerHeaderRequired ==
  [][ Answered
        => /\ (/\ authToken # None
                /\ response'.endpoint \in GuardedEndpoints
                /\ response'.authorization # "Bearer " \o authToken)
                 => (response'.status = 401 /\ UNCHANGED <<pushTokens, devices, deviceKeys>>)
           /\ response'.endpoint = "/health" => response'.status = 200
           /\ authToken = None => response'.status # 401 ]_vars

\* C20 as amended: with AUTH_TOKEN set, a request to /register, /unregister
\* or /tokens whose Authorization header is missing, or is not AUTH_TOKEN
\* once the first `Bearer ` is removed from it, is answered 401 and changes
\* neither the token set nor the device map, and a header that bears the
\* token, with the prefix or without it, is let through; /health is answered
\* without credentials; with AUTH_TOKEN not set no request is answered 401.
C20_ValidTokenRequired ==
  [][ Answered
        => /\ (authToken # None /\ response'.endpoint \in GuardedEndpoints)
                 => IF response'.authorization \in Bearing(authToken)
                    THEN response'.status # 401
                    ELSE response'.status = 401 /\ UNCHANGED <<pushTokens, devices, deviceKeys>>
           /\ response'.endpoint = "/health" => response'.status = 200
           /\ authToken = None => response'.status # 401 ]_vars

(* A registration with a wrong token refused while a device is registered *)
C20_Witness ==
  /\ authToken = Secret
  /\ response = Response("/register", 401, "Bearer wrong")
  /\ pushTokens = {ExpoToken} /\ DOMAIN devices = {ExpoToken}

\* C24: DELETE /devices/:token removes exactly the device registered under
\* that token, also when another registered token has the same first 30
\* characters, and answers 200; a token that no registered token equals or
\* begins with removes nothing and is answered 404.
C24_DeleteRemovesTheNamedDevice ==
  [][ \A t \in DeleteInputs :
        response'.endpoint = "DELETE /devices/" \o t
          => IF t \in Range(deviceKeys)
             THEN /\ response'.status = 200
                  /\ pushTokens' = pushTokens \ {t}
                  /\ devices' = MapDelete(devices, t)
             ELSE (\A k \in Range(deviceKeys) : ~StartsWith(k, Redact(t)))
                    => /\ response'.status = 404
                       /\ UNCHANGED <<pushTokens, devices, deviceKeys>> ]_vars

\* C38: with AUTH_TOKEN set, the registered devices, their templates and the
\* notification configuration change only in answer to a request that
\* carries the token: no request without it, to any endpoint, removes a
\* device, changes its templates or changes the filters.
C38_ChangesNeedTheToken ==
  [][ (/\ authToken # None
       /\ \/ pushTokens' # pushTokens
          \/ devices' # devices
          \/ bridgeConfig' # bridgeConfig)
        => response'.authorization \in Bearing(authToken) ]_vars

\* C39: after every /register, /unregister and DELETE /devices/:token
\* request the token set pushTokens is the key set of the devices map, and a
\* request answered 400 or 404 changes neither.
C39_TokensAreTheDeviceKeys ==
  [][ /\ pushTokens' = DOMAIN devices'
      /\ Range(deviceKeys') = DOMAIN devices'
      /\ response'.status \in {400, 404} => UNCHANGED <<pushTokens, devices>> ]_vars

(* DELETE has removed a device through the prefix of another token *)
C39_Witness ==
  /\ response.endpoint = "DELETE /devices/" \o FcmTokenB
  /\ response.status = 200
  /\ pushTokens = {ExpoToken, FcmTokenB}
  /\ DOMAIN devices = {ExpoToken, FcmTokenB}

-----------------------------------------------------------------------------
(* Properties of the requests to the push services (SpecTimeout)           *)

\* C32: every delivery request, to the notification proxy and to the Expo
\* service, on the review path and on the legacy path, ends in success or
\* failure after its timeout at the latest: a request that is awaited is in
\* the end no longer awaited, even when the service never answers.
C32_EveryRequestEnds ==
  (inflight # NoRequest) ~> (inflight = NoRequest)

====
